---- MODULE Spec2Model ----
(***************************************************************************)
(* Blunder detection and review pipeline of Searchless-Chess-Trainer:      *)
(*   - blunder_scanner.py         scan_pgn_file / main  (ScanSpec,         *)
(*                                 ResumeSpec)                              *)
(*   - blunder_data_manager.py    BlunderDataManager    (TrainSpec,         *)
(*                                 ToggleSpec)                              *)
(*   - learned_blunder_tracker.py LearnedBlunderTracker (TrainSpec)         *)
(*                                                                         *)
(* Win probabilities are integers in units of 1e-5 (0.05 = 5000), so that  *)
(* round(x, 4) of the scanner is a real rounding step.                     *)
(***************************************************************************)
EXTENDS Integers, Sequences, FiniteSets, TLC

VARIABLES
    archive,      \* the PGN archive: sequence of game names of GameOf
    outFile,      \* the scanner's output file (output_json_path)
    pc,           \* position of the scanner process
    scan,         \* locals of the running scan_pgn_file call
    returned,     \* value returned by scan_pgn_file
    sessions,     \* number of scan_pgn_file calls made so far
    mgr,          \* BlunderDataManager fields
    tracker,      \* LearnedBlunderTracker fields
    store_file,   \* learned_blunders_progress.json
    report_file,  \* blunders_report.json as the trainer reads it
    obs,          \* observer of the trainer's last operations
    ctl           \* BlunderTrainerController: the attempt being evaluated

vars == <<archive, outFile, pc, scan, returned, sessions, mgr, tracker, store_file, report_file, obs, ctl>>

scanVars == <<archive, outFile, pc, scan, returned, sessions>>

trainVars == <<mgr, tracker, store_file, report_file, obs, ctl>>

(***************************************************************************)
(* Bounds of the model                                                     *)
(***************************************************************************)
MaxGames == 12

MaxSessions == 2

MaxRecords == 3

MaxAttempts == 1

(***************************************************************************)
(* Program constants                                                       *)
(***************************************************************************)
SAVE_PROGRESS_EVERY_N_GAMES == 10

DEFAULT_NUM_TOP_MOVES_TO_REPORT == 3

DEFAULT_PLAYER_NAME_TO_TRACK == "simsim314"

\* --threshold values given on the command line: 0.05 (the default), 0.05003, 0.10
Thresholds == {5000, 5003, 10000}

PgnPath == "/games/a.pgn"

OtherPath == "/games/b.pgn"

(***************************************************************************)
(* Values                                                                  *)
(***************************************************************************)
None == [some |-> FALSE, v |-> 0]

Some(x) == [some |-> TRUE, v |-> x]

Min(a, b) == IF a < b THEN a ELSE b

\* Python round(x, 4): to the nearest multiple of 1e-4, ties to even.
Round4(x) ==
    LET r == x % 10
        lo == x - r
    IN  IF r < 5 THEN lo
        ELSE IF r > 5 THEN lo + 10
        ELSE IF (lo \div 10) % 2 = 0 THEN lo ELSE lo + 10

\* str.lower() on the player names that occur in the archive
Lower(name) ==
    CASE name = "SimSim314" -> "simsim314"
      [] name = "Alice" -> "alice"
      [] OTHER -> name

(***************************************************************************)
(* The position oracle (engine_manager.get_top_moves_with_eval) and the    *)
(* archive.  A node of a game's mainline carries what the two oracle tiers *)
(* answer at the position before the move (top9, top136), and at the       *)
(* position after it (opp9, opp136), or that the game is over there.       *)
(***************************************************************************)
Top(uci, p) == [uci |-> uci, p_win |-> p]

Node(fen, uci, top9, top136, over, result, opp9, opp136, raises) ==
    [fen |-> fen, uci |-> uci, top9 |-> top9, top136 |-> top136, over |-> over,
     result |-> result, opp9 |-> opp9, opp136 |-> opp136, raises |-> raises]

\* a quiet move: no drop at either tier
nQ == Node("q", "a2a3", <<Top("a2a3", 50000), Top("h2h3", 49000)>>,
           <<Top("a2a3", 50000)>>, FALSE, "*", <<Top("a7a6", 50000)>>,
           <<Top("a7a6", 50000)>>, FALSE)

\* 9M: 0.80 -> 0.60, 136M: 0.75 -> 0.55 (drop 0.20 at both tiers)
nB1 == Node("p1", "g2g4", <<Top("e2e4", 80000), Top("d2d4", 78000)>>,
            <<Top("e2e4", 75000), Top("d2d4", 74000)>>, FALSE, "*",
            <<Top("d8h4", 40000)>>, <<Top("d8h4", 45000)>>, FALSE)

\* drop 0.06 at 9M and 0.07 at 136M
nB2 == Node("p2", "f2f3", <<Top("g1f3", 70000)>>, <<Top("g1f3", 70000)>>, FALSE, "*",
            <<Top("e7e5", 36000)>>, <<Top("e7e5", 37000)>>, FALSE)

\* drop 0.05004 at both tiers
nB3 == Node("p3", "h7h5", <<Top("e7e5", 60004)>>, <<Top("e7e5", 60004)>>, FALSE, "*",
            <<Top("d2d4", 45000)>>, <<Top("d2d4", 45000)>>, FALSE)

\* drop 0.20 at 9M, 0.02 at 136M
nH == Node("p4", "b7b5", <<Top("d7d5", 70000)>>, <<Top("d7d5", 60000)>>, FALSE, "*",
           <<Top("e2e4", 50000)>>, <<Top("e2e4", 42000)>>, FALSE)

\* the 9M oracle has no data before the move
nU9 == Node("p5", "b2b4", <<>>, <<Top("e2e4", 70000)>>, FALSE, "*",
            <<Top("e7e5", 60000)>>, <<Top("e7e5", 60000)>>, FALSE)

\* drop 0.20 at 9M, the 136M oracle has no data after the move
nU136 == Node("p6", "c2c4", <<Top("e2e4", 80000)>>, <<Top("e2e4", 80000)>>, FALSE, "*",
              <<Top("e7e5", 40000)>>, <<>>, FALSE)

\* the move mates: the game is over after it
nM == Node("p7", "d1h5", <<Top("d1h5", 99000)>>, <<Top("d1h5", 99000)>>, TRUE, "1-0",
           <<>>, <<>>, FALSE)

\* the oracle call raises at this position
nX == Node("p8", "a2a4", <<Top("e2e4", 80000)>>, <<Top("e2e4", 80000)>>, FALSE, "*",
           <<Top("e7e5", 40000)>>, <<Top("e7e5", 40000)>>, TRUE)

Game(white, black, nodes) == [white |-> white, black |-> black, nodes |-> nodes]

GameOf(name) ==
    CASE name = "Gw" -> Game("simsim314", "bob", <<nB1, nQ, nB2>>)
      [] name = "Gu" -> Game("Alice", "bob", <<nB1, nQ>>)
      [] name = "Gb" -> Game("Alice", "SimSim314", <<nQ, nB3, nB1, nH>>)
      [] name = "Gq" -> Game("simsim314", "Alice", <<nQ, nQ, nU9, nQ, nU136, nQ, nM>>)
      [] name = "Gx" -> Game("simsim314", "bob", <<nB1, nQ, nX, nQ, nB2>>)

Rotation == <<"Gw", "Gu", "Gb", "Gq">>

\* an archive of n games: the rotation from offset off (off = Len(Rotation): no
\* game of the tracked player), with the raising game at position rx (0: nowhere)
ArchiveOf(n, off, rx) ==
    [i \in 1..n |->
        IF i = rx THEN "Gx"
        ELSE IF off = Len(Rotation) THEN "Gu"
        ELSE Rotation[((i - 1 + off) % Len(Rotation)) + 1]]

RaisePositions == {0, 2, 11}

\* offset 0: the 10th game has no tracked player; offset 1: it has
Offsets == {0, 1, Len(Rotation)}


(***************************************************************************)
(* blunder_scanner.py: evaluation of one game                              *)
(***************************************************************************)
\* engine_manager.get_top_moves_with_eval(board, engine, num_moves) before the move
TopMovesBefore(node, engine, num_moves) ==
    LET all == IF engine = "9M" THEN node.top9 ELSE node.top136
    IN  SubSeq(all, 1, Min(num_moves, Len(all)))

\* engine_manager.get_top_moves_with_eval(board_after, engine, num_moves=1)
TopMovesAfter(node, engine) ==
    LET all == IF engine = "9M" THEN node.opp9 ELSE node.opp136
    IN  SubSeq(all, 1, Min(1, Len(all)))

get_pwin_after_move(node, engine, color) ==
    IF node.over
    THEN IF node.result = "1-0" THEN Some(IF color = "white" THEN 100000 ELSE 0)
         ELSE IF node.result = "0-1" THEN Some(IF color = "white" THEN 0 ELSE 100000)
         ELSE Some(50000)
    ELSE LET top_moves_opponent == TopMovesAfter(node, engine)
         IN  IF top_moves_opponent = <<>> THEN None
             ELSE Some(100000 - top_moves_opponent[1].p_win)

\* p_win of the oracle's best move, None when the oracle has no data
PWinOptimal(node, engine) ==
    LET top == TopMovesBefore(node, engine, 1)
    IN  IF top = <<>> THEN None ELSE Some(top[1].p_win)

TrackedColor(game, tracked_player) ==
    IF Lower(tracked_player) = Lower(game.white) THEN "white"
    ELSE IF Lower(tracked_player) = Lower(game.black) THEN "black"
    ELSE "none"

\* faulty variant: no drop counts as below the threshold
BelowThresholdNever(drop, blunder_threshold) == FALSE

\* the drop test of both tiers
BelowThreshold(drop, blunder_threshold) == drop < blunder_threshold

\* the value a drop is stored with in the record
StoredDrop(drop) == Round4(drop)

blunder_info(node, ply, color, current_game_index, o9, a9, o136, a136, n) ==
    [game_index_in_pgn_file |-> current_game_index,
     ply_number |-> ply,
     player_color |-> color,
     fen_before_blunder |-> node.fen,
     blunder_move_uci |-> node.uci,
     p_win_optimal_9M_before |-> Round4(o9),
     p_win_after_move_9M |-> Round4(a9),
     p_win_drop_9M |-> StoredDrop(o9 - a9),
     p_win_optimal_136M_before |-> Round4(o136),
     p_win_after_move_136M |-> Round4(a136),
     p_win_drop_136M |-> StoredDrop(o136 - a136),
     top_moves_9M_before_blunder |-> TopMovesBefore(node, "9M", n),
     top_moves_136M_before_blunder |-> TopMovesBefore(node, "136M", n)]

\* One move of the tracked player: "raise" (the oracle call raises), "skip"
\* (no record) or "record" with the record; queries lists the oracle tiers asked.
EvalMove(node, ply, color, current_game_index, blunder_threshold, n) ==
    LET o9 == PWinOptimal(node, "9M")
        a9 == get_pwin_after_move(node, "9M", color)
        o136 == PWinOptimal(node, "136M")
        a136 == get_pwin_after_move(node, "136M", color)
    IN  IF node.raises THEN [kind |-> "raise", tiers |-> <<"9M">>]
        ELSE IF ~o9.some \/ ~a9.some THEN [kind |-> "skip", tiers |-> <<"9M">>]
        ELSE IF BelowThreshold(o9.v - a9.v, blunder_threshold)
             THEN [kind |-> "skip", tiers |-> <<"9M">>]
        ELSE IF ~o136.some \/ ~a136.some THEN [kind |-> "skip", tiers |-> <<"9M", "136M">>]
        ELSE IF BelowThreshold(o136.v - a136.v, blunder_threshold)
             THEN [kind |-> "skip", tiers |-> <<"9M", "136M">>]
        ELSE [kind |-> "record", tiers |-> <<"9M", "136M">>,
              rec |-> blunder_info(node, ply, color, current_game_index,
                                   o9.v, a9.v, o136.v, a136.v, n)]

\* for node in game.mainline(): the list after the game, whether a call raised,
\* and the number of moves pushed on the board
RECURSIVE EvalNodes(_, _, _, _, _, _, _)
EvalNodes(nodes, i, color, current_game_index, blunder_threshold, n, acc) ==
    IF i > Len(nodes) THEN [blunders |-> acc, raised |-> FALSE, pushed |-> Len(nodes)]
    ELSE IF (IF (i - 1) % 2 = 0 THEN "white" ELSE "black") # color
         THEN EvalNodes(nodes, i + 1, color, current_game_index, blunder_threshold, n, acc)
    ELSE LET e == EvalMove(nodes[i], i - 1, color, current_game_index, blunder_threshold, n)
         IN  IF e.kind = "raise" THEN [blunders |-> acc, raised |-> TRUE, pushed |-> i - 1]
             ELSE EvalNodes(nodes, i + 1, color, current_game_index, blunder_threshold, n,
                            IF e.kind = "record" THEN Append(acc, e.rec) ELSE acc)

EvalGame(game, color, current_game_index, blunder_threshold, acc) ==
    EvalNodes(game.nodes, 1, color, current_game_index, blunder_threshold,
              DEFAULT_NUM_TOP_MOVES_TO_REPORT, acc)


(***************************************************************************)
(* blunder_scanner.py: the report file and the scan session                *)
(***************************************************************************)
\* The output file as json.load sees it.  json is "garbage" (not JSON),
\* "notreport" (not an object with scan_progress and blunders), "badprogress"
\* (scan_progress is not an object, or its index is not a number) or "report".
File(json, path, last, blunders) ==
    [exists |-> TRUE, json |-> json, path |-> path, last |-> last, blunders |-> blunders]

AbsentFile == [exists |-> FALSE, json |-> "none", path |-> "", last |-> -1, blunders |-> <<>>]

\* json.dump(final_report_data, f)
DumpReport(final_report_data) ==
    File("report", final_report_data.last_pgn_filepath,
         final_report_data.last_game_index_processed, final_report_data.blunders)

\* a record left by an earlier scan
StaleRecord == blunder_info(nB2, 2, "white", 1, 70000, 64000, 70000, 63000, 3)

InitialFiles ==
    {AbsentFile,
     File("garbage", "", -1, <<>>),
     File("notreport", "", -1, <<>>),
     File("badprogress", PgnPath, -1, <<>>),
     File("report", OtherPath, 4, <<StaleRecord>>),
     File("report", PgnPath, MaxGames + 2, <<StaleRecord>>)}

Report(last, blunders) ==
    [last_pgn_filepath |-> PgnPath, last_game_index_processed |-> last, blunders |-> blunders]

NoReturn == [is_report |-> FALSE, how |-> "running", report |-> Report(-1, <<>>)]

ReturnNone(how) == [is_report |-> FALSE, how |-> how, report |-> Report(-1, <<>>)]

ReturnReport(how, final_report_data) ==
    [is_report |-> TRUE, how |-> how, report |-> final_report_data]

\* no scan_pgn_file call is running; the command line keeps its threshold
IdleScan(blunder_threshold) ==
    [blunder_threshold |-> blunder_threshold,
     blunders_found_list |-> <<>>,
     start_game_index_from_resume |-> 0,
     current_game_index |-> -1,
     games_processed_in_this_session |-> 0,
     last_saved_game_index |-> -1,
     final_report_data |-> Report(-1, <<>>),
     pgn_pos |-> 0,
     games_read |-> <<>>,
     resumed |-> FALSE,
     skip_hit_eof |-> FALSE]

\* the report file can be resumed from
Resumable(f) == f.exists /\ f.json = "report" /\ f.path = PgnPath

\* reading the file raises an exception that scan_pgn_file does not catch
LoadRaises(f) == f.exists /\ f.json = "badprogress"

\* faulty variant: resuming at the game the checkpoint was written for
ResumeIndexSameGame(f) == f.last

\* start_game_index_from_resume of a resumable file
ResumeIndex(f) == f.last + 1

\* faulty variant: while temp_skip_count <= start
SkippedGamesOneMore(start_game_index_from_resume) == start_game_index_from_resume + 1

\* the number of games the skip loop reads (while temp_skip_count < start)
SkippedGames(start_game_index_from_resume) == start_game_index_from_resume

\* faulty variant: the fallback keeps the loaded records
ResetListKeep(loaded) == loaded

\* the list the EOF fallback of the skip loop continues with
ResetList(loaded) == <<>>

\* the index the except path stores before returning the report
AbortIndex(current_game_index) == current_game_index

\* line 199: the index stored when the loop has ended
LoopEndIndex(last_saved_game_index, current_game_index) ==
    IF last_saved_game_index > -1 THEN last_saved_game_index ELSE current_game_index

\* games_processed_in_this_session % SAVE_PROGRESS_EVERY_N_GAMES == 0
CheckpointDue(games_processed_in_this_session) ==
    /\ games_processed_in_this_session > 0
    /\ games_processed_in_this_session % SAVE_PROGRESS_EVERY_N_GAMES = 0

\* lines 54-87: read the report file, load the engines, set up the locals
StartScan(t, engines_ok) ==
    /\ pc = "idle"
    /\ sessions < MaxSessions
    /\ sessions' = sessions + 1
    /\ IF LoadRaises(outFile)
       THEN /\ pc' = "raised"
            /\ scan' = IdleScan(t)
            /\ returned' = NoReturn
       ELSE IF ~engines_ok
       THEN /\ pc' = "returned"
            /\ scan' = IdleScan(t)
            /\ returned' = ReturnNone("noengine")
       ELSE LET start == IF Resumable(outFile) THEN ResumeIndex(outFile) ELSE 0
                list == IF Resumable(outFile) THEN outFile.blunders ELSE <<>>
            IN  /\ pc' = "open"
                /\ scan' = [blunder_threshold |-> t,
                            blunders_found_list |-> list,
                            start_game_index_from_resume |-> start,
                            current_game_index |-> -1,
                            games_processed_in_this_session |-> 0,
                            last_saved_game_index |-> start - 1,
                            final_report_data |-> Report(start - 1, list),
                            pgn_pos |-> 0,
                            games_read |-> <<>>,
                            resumed |-> Resumable(outFile),
                            skip_hit_eof |-> FALSE]
                /\ returned' = NoReturn
    /\ UNCHANGED <<archive, outFile>>

\* lines 202-203: the except path returns the report with the current index
AbortScan(s, current_game_index) ==
    LET frd == [s.final_report_data EXCEPT
                   !.last_game_index_processed = AbortIndex(current_game_index)]
    IN  /\ pc' = "returned"
        /\ scan' = [s EXCEPT !.final_report_data = frd,
                             !.current_game_index = current_game_index]
        /\ returned' = ReturnReport("error", frd)

\* lines 89-101: open the archive and skip the games already processed
OpenArchive(io) ==
    /\ pc = "open"
    /\ IF io = "notfound"
       THEN /\ pc' = "returned"
            /\ returned' = ReturnNone("notfound")
            /\ scan' = scan
       ELSE IF io = "error"
       THEN AbortScan(scan, scan.current_game_index)
       ELSE /\ pc' = "loop"
            /\ returned' = returned
            /\ IF scan.start_game_index_from_resume > 0
                  /\ Len(archive) < SkippedGames(scan.start_game_index_from_resume)
               THEN scan' = [scan EXCEPT
                                !.pgn_pos = 0,
                                !.start_game_index_from_resume = 0,
                                !.blunders_found_list = ResetList(@),
                                !.final_report_data =
                                    Report(-1, ResetList(scan.blunders_found_list)),
                                !.current_game_index = -1,
                                !.skip_hit_eof = TRUE]
               ELSE scan' = [scan EXCEPT
                                !.pgn_pos = IF scan.start_game_index_from_resume > 0
                                            THEN SkippedGames(scan.start_game_index_from_resume)
                                            ELSE 0,
                                !.current_game_index =
                                    scan.start_game_index_from_resume - 1]
    /\ UNCHANGED <<archive, outFile, sessions>>

\* lines 103-197: one iteration of the main loop that reads a game
ReadGame(write_ok) ==
    /\ pc = "loop"
    /\ scan.pgn_pos < Len(archive)
    /\ LET idx == scan.current_game_index + 1
           game == GameOf(archive[scan.pgn_pos + 1])
           color == TrackedColor(game, DEFAULT_PLAYER_NAME_TO_TRACK)
           s1 == [scan EXCEPT
                     !.current_game_index = idx,
                     !.pgn_pos = @ + 1,
                     !.games_processed_in_this_session = @ + 1,
                     !.games_read = Append(@, [pos |-> scan.pgn_pos, index |-> idx])]
           r == EvalGame(game, color, idx, scan.blunder_threshold, scan.blunders_found_list)
           s2 == [s1 EXCEPT
                     !.blunders_found_list = r.blunders,
                     !.final_report_data = [@ EXCEPT !.blunders = r.blunders]]
           s3 == [s2 EXCEPT !.last_saved_game_index = idx]
           s4 == [s3 EXCEPT !.final_report_data =
                                [@ EXCEPT !.last_game_index_processed = idx]]
       IN  IF color = "none"
           THEN /\ scan' = s1
                /\ UNCHANGED <<pc, returned, outFile>>
           ELSE IF r.raised
           THEN /\ AbortScan(s2, idx)
                /\ UNCHANGED outFile
           ELSE IF CheckpointDue(s3.games_processed_in_this_session)
           THEN /\ scan' = s4
                /\ outFile' = IF write_ok THEN DumpReport(s4.final_report_data) ELSE outFile
                /\ UNCHANGED <<pc, returned>>
           ELSE /\ scan' = s3
                /\ UNCHANGED <<pc, returned, outFile>>
    /\ UNCHANGED <<archive, sessions>>

\* lines 108-112, 199, 203: read_game returns None, the loop ends, the report is returned
EndOfArchive ==
    /\ pc = "loop"
    /\ scan.pgn_pos = Len(archive)
    /\ LET idx == scan.current_game_index + 1
           frd199 == [scan.final_report_data EXCEPT !.last_game_index_processed =
                         LoopEndIndex(scan.last_saved_game_index, idx)]
           frd == [frd199 EXCEPT !.last_game_index_processed = AbortIndex(idx)]
       IN  /\ scan' = [scan EXCEPT !.current_game_index = idx, !.final_report_data = frd]
           /\ returned' = ReturnReport("complete", frd)
    /\ pc' = "returned"
    /\ UNCHANGED <<archive, outFile, sessions>>

\* lines 108, 202-203: reading the next game from the archive raises
ReadError ==
    /\ pc = "loop"
    /\ AbortScan(scan, scan.current_game_index + 1)
    /\ UNCHANGED <<archive, outFile, sessions>>

\* main, lines 220-228: write what scan_pgn_file returned, and exit
\* (a write that fails leaves the file as ProcessKilled does)
MainWrite ==
    /\ pc = "returned"
    /\ outFile' = IF returned.is_report THEN DumpReport(returned.report) ELSE outFile
    /\ pc' = "idle"
    /\ scan' = IdleScan(scan.blunder_threshold)
    /\ returned' = NoReturn
    /\ UNCHANGED <<archive, sessions>>

\* the process is stopped, or ends with the uncaught exception
ProcessKilled ==
    /\ pc \in {"open", "loop", "raised", "returned"}
    /\ pc' = "idle"
    /\ scan' = IdleScan(scan.blunder_threshold)
    /\ returned' = NoReturn
    /\ UNCHANGED <<archive, outFile, sessions>>


(***************************************************************************)
(* blunder_data_manager.py and learned_blunder_tracker.py: values          *)
(***************************************************************************)
NEGLIGIBLE_PWIN_DROP_FOR_FAKE_BLUNDER_CHECK == 1000

DEFAULT_GUI_BLUNDER_THRESHOLD == 10000

\* thresholds a BlunderDataManager is constructed with
ManagerThresholds == {0, DEFAULT_GUI_BLUNDER_THRESHOLD}

Fens == {"f1", "f2"}

\* moves a user tries: the engine's top move at f1, and another move
AttemptUcis == {"e1", "x9"}

required_keys ==
    {"p_win_drop_9M", "fen_before_blunder", "blunder_move_uci", "top_moves_9M_before_blunder"}

\* An entry of the "blunders" list as json.load returns it: is_dict (a JSON
\* object), the keys it has, the values of the required keys; drop_is_number
\* and top_is_list tell the JSON type of p_win_drop_9M and of
\* top_moves_9M_before_blunder, whose entries are objects or not.
Rec(fen, uci, drop, tops) ==
    [is_dict |-> TRUE, keys |-> required_keys, fen_before_blunder |-> fen,
     blunder_move_uci |-> uci, p_win_drop_9M |-> drop, drop_is_number |-> TRUE,
     top_is_list |-> TRUE,
     top_moves_9M_before_blunder |-> [k \in 1..Len(tops) |-> [is_dict |-> TRUE, uci |-> tops[k]]]]

r1 == Rec("f1", "m1", 20000, <<"e1", "e2">>)

rFake == Rec("f2", "e2", 500, <<"e2">>)

r2 == Rec("f2", "m2", 12000, <<"e2">>)

rAnomaly == Rec("f1", "e1", 20000, <<"e1">>)

r3 == Rec("f1", "m3", 15000, <<"e1">>)

rMissing == [Rec("f2", "m2", 12000, <<"e2">>) EXCEPT
                !.keys = required_keys \ {"top_moves_9M_before_blunder"}]

rTopString == [Rec("f1", "m4", 13000, <<"e1">>) EXCEPT !.top_is_list = FALSE]

rNotDict == [Rec("f1", "m1", 20000, <<>>) EXCEPT !.is_dict = FALSE, !.keys = {}]

rSmall == Rec("f1", "m5", 500, <<"e1">>)

rBadDrop == [Rec("f1", "m6", 0, <<"e1">>) EXCEPT !.drop_is_number = FALSE]

\* the records a report is cut from: a report is a run of up to MaxRecords of them
Universe ==
    <<r1, rFake, r2, r3, rAnomaly, rMissing, rTopString, rNotDict, rSmall, r2, rBadDrop, r1>>

\* where a report starts in Universe
Firsts == {1, 5, 9}

Window(a, n) == SubSeq(Universe, a, Min(a + n - 1, Len(Universe)))

\* blunders_report.json as load_blunders finds it
ReportFile(exists, json_ok, first, count) ==
    [exists |-> exists, json_ok |-> json_ok, first |-> first, count |-> count]

BlundersOf(f) == Window(f.first, f.count)

(***************************************************************************)
(* learned_blunder_tracker.py                                              *)
(***************************************************************************)
NoEntry ==
    [present |-> FALSE, attempts |-> <<>>, is_marked_overall_solved |-> FALSE,
     original_blunder_move_uci |-> "", original_p_win_drop_9M |-> 0]

EmptyLearned == [f \in Fens |-> NoEntry]

\* the live 9M evaluation after the attempted move (timestamps are left out:
\* nothing reads them)
AttemptPWin(uci) == IF uci = "e1" THEN 78000 ELSE 61000

\* faulty variant: the overall flag follows the last attempt
SolvedAfterLastAttempt(was_solved, is_solved_this_attempt) == is_solved_this_attempt

\* lines 79-80: is_marked_overall_solved after an attempt
SolvedAfter(was_solved, is_solved_this_attempt) ==
    IF is_solved_this_attempt /\ ~was_solved THEN TRUE ELSE was_solved

\* faulty variant: the new attempt replaces the position's attempts
record_attempt_overwriting(learned_data, fen, original_uci, original_drop, attempted_uci, pwin_after_attempt, is_solved_this_attempt) ==
    [learned_data EXCEPT ![fen] =
        [present |-> TRUE,
         attempts |-> <<[uci |-> attempted_uci, pwin_after_9M |-> pwin_after_attempt,
                         solved_criteria_met |-> is_solved_this_attempt]>>,
         is_marked_overall_solved |->
             SolvedAfter(learned_data[fen].is_marked_overall_solved, is_solved_this_attempt),
         original_blunder_move_uci |-> original_uci,
         original_p_win_drop_9M |-> original_drop]]

\* LearnedBlunderTracker.record_attempt: learned_data afterwards
record_attempt(learned_data, fen, original_uci, original_drop, attempted_uci, pwin_after_attempt, is_solved_this_attempt) ==
    LET entry == IF learned_data[fen].present THEN learned_data[fen]
                 ELSE [present |-> TRUE, attempts |-> <<>>,
                       is_marked_overall_solved |-> FALSE,
                       original_blunder_move_uci |-> original_uci,
                       original_p_win_drop_9M |-> original_drop]
        attempt_record == [uci |-> attempted_uci, pwin_after_9M |-> pwin_after_attempt,
                           solved_criteria_met |-> is_solved_this_attempt]
    IN  [learned_data EXCEPT ![fen] =
            [entry EXCEPT
                !.attempts = Append(@, attempt_record),
                !.is_marked_overall_solved = SolvedAfter(@, is_solved_this_attempt)]]

\* LearnedBlunderTracker.get_blunder_status is learned_data.get(fen)
is_blunder_solved(learned_data, fen) ==
    IF learned_data[fen].present THEN learned_data[fen].is_marked_overall_solved ELSE FALSE

(***************************************************************************)
(* blunder_data_manager.py: the filter pass                                *)
(***************************************************************************)
\* the uci of tier 1's top move, when the record has one
EngineTop(b) ==
    IF b.top_is_list /\ Len(b.top_moves_9M_before_blunder) > 0
       /\ b.top_moves_9M_before_blunder[1].is_dict
    THEN Some(b.top_moves_9M_before_blunder[1].uci) ELSE [some |-> FALSE, v |-> ""]

\* faulty variant: the fake-blunder check is left out
NeverEnginesTop(b) == FALSE

\* lines 65-71: the recorded blunder move is the engine's top move
IsBlunderMoveEnginesTop(b) == EngineTop(b).some /\ EngineTop(b).v = b.blunder_move_uci

\* lines 97-103: an earlier attempt at the position used the engine's top move
UserFoundEngineTop(learned_data, b) ==
    /\ learned_data[b.fen_before_blunder].present
    /\ EngineTop(b).some
    /\ \E k \in 1..Len(learned_data[b.fen_before_blunder].attempts) :
           learned_data[b.fen_before_blunder].attempts[k].uci = EngineTop(b).v

\* faulty variant: the solved flag is not consulted
SolvedIgnored(learned_data, b) == FALSE

\* line 91
SolvedByFlag(learned_data, b) == is_blunder_solved(learned_data, b.fen_before_blunder)

\* faulty variant: only a negligible drop excludes a record whose move is the
\* engine's top move; with a larger drop the threshold rule decides
VerdictAnomalyToThreshold(b, threshold, show_only_unsolved, learned_data) ==
    IF ~(b.is_dict /\ required_keys \subseteq b.keys) THEN "malformed"
    ELSE IF ~b.drop_is_number THEN "raise"
    ELSE IF IsBlunderMoveEnginesTop(b)
            /\ b.p_win_drop_9M < NEGLIGIBLE_PWIN_DROP_FOR_FAKE_BLUNDER_CHECK
         THEN "fake_blunder_uci_is_engine_top_and_negligible_drop"
    ELSE IF b.p_win_drop_9M < threshold THEN "below_threshold"
    ELSE IF show_only_unsolved /\ SolvedByFlag(learned_data, b)
         THEN "solved_by_pwin_improvement"
    ELSE IF show_only_unsolved /\ UserFoundEngineTop(learned_data, b)
         THEN "solved_by_finding_engine_top_move"
    ELSE "keep"

\* lines 52-109: what the loop body does with one record: the skip counter it
\* counts under, "keep", or "raise" (a comparison with a non-number raises)
Verdict(b, threshold, show_only_unsolved, learned_data) ==
    IF ~(b.is_dict /\ required_keys \subseteq b.keys) THEN "malformed"
    ELSE IF IsBlunderMoveEnginesTop(b)
         THEN IF ~b.drop_is_number THEN "raise"
              ELSE IF b.p_win_drop_9M < NEGLIGIBLE_PWIN_DROP_FOR_FAKE_BLUNDER_CHECK
                   THEN "fake_blunder_uci_is_engine_top_and_negligible_drop"
              ELSE "fake_blunder_uci_is_engine_top_but_drop_is_significant_warning"
    ELSE IF ~b.drop_is_number THEN "raise"
    ELSE IF b.p_win_drop_9M < threshold THEN "below_threshold"
    ELSE IF show_only_unsolved /\ SolvedByFlag(learned_data, b)
         THEN "solved_by_pwin_improvement"
    ELSE IF show_only_unsolved /\ UserFoundEngineTop(learned_data, b)
         THEN "solved_by_finding_engine_top_move"
    ELSE "keep"

SkipCounters ==
    {"malformed", "fake_blunder_uci_is_engine_top_and_negligible_drop",
     "fake_blunder_uci_is_engine_top_but_drop_is_significant_warning", "below_threshold",
     "solved_by_pwin_improvement", "solved_by_finding_engine_top_move"}

NoSkips == [c \in SkipCounters |-> 0]

\* _filter_and_sort_training_blunders: the candidates and the tally, or raised
RECURSIVE FilterFrom(_, _, _, _, _, _, _)
FilterFrom(all, i, threshold, show_only_unsolved, learned_data, candidates, skipped) ==
    IF i > Len(all)
    THEN [raised |-> FALSE, training_blunders |-> candidates, skipped_count |-> skipped]
    ELSE LET v == Verdict(all[i], threshold, show_only_unsolved, learned_data)
         IN  IF v = "raise"
             THEN [raised |-> TRUE, training_blunders |-> candidates, skipped_count |-> skipped]
             ELSE IF v = "keep"
             THEN FilterFrom(all, i + 1, threshold, show_only_unsolved, learned_data,
                             Append(candidates, all[i]), skipped)
             ELSE FilterFrom(all, i + 1, threshold, show_only_unsolved, learned_data,
                             candidates, [skipped EXCEPT ![v] = @ + 1])

filter_and_sort_training_blunders(all, threshold, show_only_unsolved, learned_data) ==
    FilterFrom(all, 1, threshold, show_only_unsolved, learned_data, <<>>, NoSkips)

(***************************************************************************)
(* blunder_data_manager.py and learned_blunder_tracker.py: operations      *)
(***************************************************************************)
\* obs follows the calls set_show_only_unsolved(False), set_show_only_unsolved(True)
\* made from show_only_unsolved = True: stage counts them, before is
\* training_blunders as it was before the first, undisturbed tells that the set
\* was then the result of a filter pass over the current data and that
\* load_blunders was not called between the two.  A run that starts with
\* watch = FALSE is not followed: obs stays as it is.
Obs0 == [watch |-> TRUE, stage |-> 0, before |-> <<>>, undisturbed |-> FALSE]

ObsOff == [Obs0 EXCEPT !.watch = FALSE]

ObsReset(o) == IF o.watch THEN Obs0 ELSE o

ObsKeep(o) == IF o.stage = 1 THEN o ELSE ObsReset(o)

ObsLoad(o) == IF o.stage = 1 THEN [o EXCEPT !.undisturbed = FALSE] ELSE ObsReset(o)

\* obs after set_show_only_unsolved has changed the flag of manager m
ObsToggle(o, m, show_unsolved, learned_data) ==
    IF ~o.watch THEN o
    ELSE IF ~show_unsolved
    THEN [watch |-> TRUE, stage |-> 1, before |-> m.training_blunders,
          undisturbed |-> LET pass == filter_and_sort_training_blunders(
                                          m.all_blunders_from_file, m.threshold,
                                          m.show_only_unsolved, learned_data)
                          IN  ~pass.raised
                                  /\ m.training_blunders = pass.training_blunders]
    ELSE IF o.stage = 1 THEN [o EXCEPT !.stage = 2]
    ELSE Obs0

get_current_blunder(m) ==
    IF 0 <= m.current_index /\ m.current_index < Len(m.training_blunders)
    THEN [some |-> TRUE, v |-> m.training_blunders[m.current_index + 1]]
    ELSE [some |-> FALSE, v |-> r1]

\* faulty variant: the display index does not look at the set
get_current_index_display_unguarded(m) == m.current_index + 1

\* has_blunders and get_current_index_display
get_current_index_display(m) ==
    IF Len(m.training_blunders) > 0 THEN m.current_index + 1 ELSE 0

\* LearnedBlunderTracker._load_progress (attempts_recorded counts the
\* record_attempt calls of this process)
LoadProgress(f) ==
    [learned_data |-> IF f.exists /\ f.json_ok THEN f.learned_data ELSE EmptyLearned,
     has_unsaved_changes |-> FALSE,
     attempts_recorded |-> 0]

\* the flag a pass started by set_show_only_unsolved filters with
FlagForPassOld(old_flag, new_flag) == old_flag

FlagForPass(old_flag, new_flag) == new_flag

\* the list after a pass: a pass that raises leaves training_blunders as it was
AfterPass(m, pass) ==
    IF pass.raised THEN m ELSE [m EXCEPT !.training_blunders = pass.training_blunders]

load_blunders ==
    /\ IF ~report_file.exists \/ ~report_file.json_ok
       THEN mgr' = mgr
       ELSE LET m1 == [mgr EXCEPT !.all_blunders_from_file = BlundersOf(report_file)]
                pass == filter_and_sort_training_blunders(
                            m1.all_blunders_from_file, m1.threshold,
                            m1.show_only_unsolved, tracker.learned_data)
            IN  mgr' = AfterPass(m1, pass)
    /\ obs' = ObsLoad(obs)
    /\ UNCHANGED <<tracker, store_file, report_file>>

set_show_only_unsolved(show_unsolved) ==
    /\ IF mgr.show_only_unsolved = show_unsolved
       THEN /\ mgr' = mgr
            /\ obs' = ObsKeep(obs)
       ELSE LET m1 == [mgr EXCEPT !.show_only_unsolved = show_unsolved,
                                  !.current_index = -1]
                pass == filter_and_sort_training_blunders(
                            m1.all_blunders_from_file, m1.threshold,
                            FlagForPass(mgr.show_only_unsolved, show_unsolved),
                            tracker.learned_data)
            IN  /\ mgr' = AfterPass(m1, pass)
                /\ obs' = ObsToggle(obs, mgr, show_unsolved, tracker.learned_data)
    /\ UNCHANGED <<tracker, store_file, report_file>>

\* faulty variant: next_blunder stops at the last record
NextIndexNoWrap(current_index, n) ==
    IF n > 0 THEN Min(current_index + 1, n - 1) ELSE -1

\* lines 144-146: the index next_blunder moves to in a set of n records
NextIndex(current_index, n) ==
    IF n > 0 THEN (current_index + 1) % n ELSE -1

\* lines 150-152: the index prev_blunder moves to
PrevIndex(current_index, n) ==
    IF n > 0 THEN (current_index - 1 + n) % n ELSE -1

next_blunder ==
    /\ mgr' = [mgr EXCEPT !.current_index =
                  NextIndex(mgr.current_index, Len(mgr.training_blunders))]
    /\ obs' = ObsKeep(obs)
    /\ UNCHANGED <<tracker, store_file, report_file>>

prev_blunder ==
    /\ mgr' = [mgr EXCEPT !.current_index =
                  PrevIndex(mgr.current_index, Len(mgr.training_blunders))]
    /\ obs' = ObsKeep(obs)
    /\ UNCHANGED <<tracker, store_file, report_file>>

\* the position the attempt is recorded for
AttemptKey(current_blunder) == current_blunder.fen_before_blunder

\* faulty variant: the training set is filtered again after the attempt
record_attempt_and_filter(attempted_uci, pwin_after_attempt, is_solved_this_attempt) ==
    /\ tracker.attempts_recorded < MaxAttempts
    /\ LET current_blunder == get_current_blunder(mgr)
       IN  IF current_blunder.some
           THEN LET learned_data ==
                        record_attempt(tracker.learned_data, AttemptKey(current_blunder.v),
                                       current_blunder.v.blunder_move_uci,
                                       current_blunder.v.p_win_drop_9M, attempted_uci,
                                       pwin_after_attempt, is_solved_this_attempt)
                IN  /\ tracker' = [learned_data |-> learned_data,
                                   has_unsaved_changes |-> TRUE,
                                   attempts_recorded |-> tracker.attempts_recorded + 1]
                    /\ mgr' = AfterPass(mgr, filter_and_sort_training_blunders(
                                                 mgr.all_blunders_from_file, mgr.threshold,
                                                 mgr.show_only_unsolved, learned_data))
           ELSE tracker' = tracker /\ mgr' = mgr
    /\ obs' = ObsReset(obs)
    /\ UNCHANGED <<store_file, report_file>>

record_attempt_for_current_blunder(attempted_uci, pwin_after_attempt, is_solved_this_attempt) ==
    /\ tracker.attempts_recorded < MaxAttempts
    /\ LET current_blunder == get_current_blunder(mgr)
       IN  IF current_blunder.some
           THEN tracker' =
                    [learned_data |->
                         record_attempt(tracker.learned_data, AttemptKey(current_blunder.v),
                                        current_blunder.v.blunder_move_uci,
                                        current_blunder.v.p_win_drop_9M, attempted_uci,
                                        pwin_after_attempt, is_solved_this_attempt),
                     has_unsaved_changes |-> TRUE,
                     attempts_recorded |-> tracker.attempts_recorded + 1]
           ELSE tracker' = tracker
    /\ obs' = ObsReset(obs)
    /\ UNCHANGED <<mgr, store_file, report_file>>

\* save_learning_progress is learned_tracker.save_progress(); outcome is "ok",
\* "open_fails" (nothing written) or "dump_fails" (the file is left cut short)
save_progress(outcome) ==
    /\ IF ~tracker.has_unsaved_changes
       THEN UNCHANGED <<tracker, store_file>>
       ELSE IF outcome = "ok"
       THEN /\ store_file' = [exists |-> TRUE, json_ok |-> TRUE,
                              learned_data |-> tracker.learned_data]
            /\ tracker' = [tracker EXCEPT !.has_unsaved_changes = FALSE]
       ELSE IF outcome = "dump_fails"
       THEN /\ store_file' = [exists |-> TRUE, json_ok |-> FALSE,
                              learned_data |-> EmptyLearned]
            /\ tracker' = tracker
       ELSE UNCHANGED <<tracker, store_file>>
    /\ obs' = ObsKeep(obs)
    /\ UNCHANGED <<mgr, report_file>>

\* faulty variant: the reset also forgets the attempts made at the position
reset_forgetting_attempts(fen) ==
    /\ IF tracker.learned_data[fen].present
          /\ tracker.learned_data[fen].is_marked_overall_solved
       THEN tracker' = [tracker EXCEPT
                           !.learned_data[fen].is_marked_overall_solved = FALSE,
                           !.learned_data[fen].attempts = <<>>,
                           !.has_unsaved_changes = TRUE]
       ELSE tracker' = tracker
    /\ obs' = ObsReset(obs)
    /\ UNCHANGED <<mgr, store_file, report_file>>

\* lines 116-124: clear the overall flag of a solved position
reset_blunder_solved_status(fen) ==
    /\ IF tracker.learned_data[fen].present
          /\ tracker.learned_data[fen].is_marked_overall_solved
       THEN tracker' = [tracker EXCEPT
                           !.learned_data[fen].is_marked_overall_solved = FALSE,
                           !.has_unsaved_changes = TRUE]
       ELSE tracker' = tracker
    /\ obs' = ObsReset(obs)
    /\ UNCHANGED <<mgr, store_file, report_file>>

\* the scanner has appended a record to the report since it was loaded
ReportGrows ==
    /\ report_file.exists /\ report_file.json_ok
    /\ report_file.count = Len(mgr.all_blunders_from_file)
    /\ report_file.count < MaxRecords
    /\ report_file.first + report_file.count <= Len(Universe)
    /\ report_file' = [report_file EXCEPT !.count = @ + 1]
    /\ UNCHANGED <<mgr, tracker, store_file, obs>>

(***************************************************************************)
(* blunder_trainer_controller.py: the evaluation of a user's attempt       *)
(***************************************************************************)
\* no attempt is being evaluated
NoAttempt == <<>>

SOLVED_IMPROVEMENT_THRESHOLD == 3000

\* top-move lists of a record as the scanner writes them (best move first); the
\* last one has --top_n_moves 4
TopLists9M ==
    {<<>>,
     <<Top("a", 80000), Top("b", 70000)>>,
     <<Top("a", 80000), Top("b", 78000)>>,
     <<Top("a", 80000), Top("c", 79000), Top("d", 78500), Top("b", 78000)>>}

TopLists136M ==
    {<<>>,
     <<Top("a", 72000), Top("b", 60000)>>,
     <<Top("a", 72000), Top("b", 70000)>>,
     <<Top("b", 75000), Top("a", 74000)>>}

UserMoves == {"a", "b", "z"}

\* calculate_p_win_for_player after the attempted move: None or a p_win
LivePWinsAfter == {None, Some(70000), Some(78000)}

\* p_win of the first entry of get_top_engine_moves_list(num_moves=1), if any
LivePWinsOptimal == {None, Some(80000)}

\* _find_move_in_precalculated_list: the first of the first three entries with
\* the move's uci
find_move_in_precalculated_list(uci_to_find, move_list) ==
    LET hits == {k \in 1..Min(Len(move_list), 3) : move_list[k].uci = uci_to_find}
    IN  IF hits = {} THEN None
        ELSE Some(move_list[CHOOSE k \in hits : \A j \in hits : k <= j])

\* lines 152-153: the recorded optimum of a tier
OptimalPWinFromData(move_list) ==
    IF Len(move_list) > 0 THEN Some(move_list[1].p_win) ELSE None

\* lines 141-144
AttemptDefaults ==
    [pwin_val_for_player_after_user_attempt |-> 50000,
     evaluation_source |-> "Unknown",
     is_solved_overall |-> FALSE]

\* lines 155-160: the attempted move is in the 9M list
After9M(r, matched_9m_move_info, optimal_pwin_9m_from_data) ==
    IF matched_9m_move_info.some
    THEN [pwin_val_for_player_after_user_attempt |-> matched_9m_move_info.v.p_win,
          evaluation_source |-> "Pre-calculated 9M",
          is_solved_overall |->
              /\ optimal_pwin_9m_from_data.some
              /\ matched_9m_move_info.v.p_win
                     >= optimal_pwin_9m_from_data.v - SOLVED_IMPROVEMENT_THRESHOLD]
    ELSE r

\* lines 163-172: not solved yet and the attempted move is in the 136M list
After136M(r, matched_9m_move_info, matched_136m_move_info, optimal_pwin_136m_from_data) ==
    IF ~r.is_solved_overall /\ matched_136m_move_info.some
    THEN LET takes_136m == \/ r.evaluation_source = "Unknown"
                           \/ (~matched_9m_move_info.some /\ matched_136m_move_info.some)
             pwin == IF takes_136m THEN matched_136m_move_info.v.p_win
                     ELSE r.pwin_val_for_player_after_user_attempt
             solved == /\ optimal_pwin_136m_from_data.some
                       /\ pwin >= optimal_pwin_136m_from_data.v - SOLVED_IMPROVEMENT_THRESHOLD
         IN  [pwin_val_for_player_after_user_attempt |-> pwin,
              evaluation_source |-> IF takes_136m \/ solved THEN "Pre-calculated 136M"
                                    ELSE r.evaluation_source,
              is_solved_overall |-> solved]
    ELSE r

\* lines 175-204: the move was found in neither list
AfterLive(r, engine_9M, live_pwin_after_user_attempt, live_pwin_optimal_from_engine) ==
    IF r.evaluation_source = "Unknown"
    THEN IF engine_9M
         THEN LET pwin == IF live_pwin_after_user_attempt.some
                          THEN live_pwin_after_user_attempt.v
                          ELSE r.pwin_val_for_player_after_user_attempt
              IN  [pwin_val_for_player_after_user_attempt |-> pwin,
                   evaluation_source |-> "Live Engine 9M",
                   is_solved_overall |->
                       /\ live_pwin_optimal_from_engine.some
                       /\ pwin >= live_pwin_optimal_from_engine.v
                                      - SOLVED_IMPROVEMENT_THRESHOLD]
         ELSE [r EXCEPT !.evaluation_source = "Live Engine 9M"]
    ELSE r

\* what _evaluate_and_display_user_attempt passes to
\* record_attempt_for_current_blunder, with the source of the evaluation
AttemptResult(c) ==
    LET matched_9m_move_info ==
            find_move_in_precalculated_list(c.user_move_uci, c.top_moves_9M_data)
        matched_136m_move_info ==
            find_move_in_precalculated_list(c.user_move_uci, c.top_moves_136M_data)
        after_9m == After9M(AttemptDefaults, matched_9m_move_info,
                            OptimalPWinFromData(c.top_moves_9M_data))
        after_136m == After136M(after_9m, matched_9m_move_info, matched_136m_move_info,
                                OptimalPWinFromData(c.top_moves_136M_data))
    IN  AfterLive(after_136m, c.engine_9M, c.live_pwin_after_user_attempt,
                  c.live_pwin_optimal_from_engine)

\* _handle_user_move_attempt with a legal move, and
\* _evaluate_and_display_user_attempt; live_pwin_after_user_attempt is what the
\* live engine answers for the position after the move
evaluate_and_display_user_attempt(user_move_uci, live_pwin_after_user_attempt) ==
    /\ ctl.current_interaction_mode = "user_input"
    /\ LET c == [ctl EXCEPT !.current_interaction_mode = "showing_feedback",
                            !.user_move_uci = user_move_uci,
                            !.live_pwin_after_user_attempt = live_pwin_after_user_attempt]
       IN  ctl' = [c EXCEPT !.result = AttemptResult(c)]
    /\ UNCHANGED <<mgr, tracker, store_file, report_file, obs>>

\* action_retry_current_blunder: the stored attempt is deleted, the user moves again
action_retry_current_blunder ==
    /\ ctl.current_interaction_mode = "showing_feedback"
    /\ ctl' = [ctl EXCEPT !.current_interaction_mode = "user_input",
                          !.user_move_uci = "",
                          !.live_pwin_after_user_attempt = None,
                          !.result = AttemptDefaults]
    /\ UNCHANGED <<mgr, tracker, store_file, report_file, obs>>

(***************************************************************************)
(* Specification of the trainer                                            *)
(***************************************************************************)
ScannerAbsent ==
    /\ archive = <<>>
    /\ outFile = AbsentFile
    /\ pc = "idle"
    /\ scan = IdleScan(5000)
    /\ returned = NoReturn
    /\ sessions = 0

\* a store written by an earlier session: f1 solved at the first attempt
OldStore ==
    [exists |-> TRUE, json_ok |-> TRUE,
     learned_data |-> record_attempt(EmptyLearned, "f1", "m1", 20000, "e1", 78000, TRUE)]

InitialStores ==
    {[exists |-> FALSE, json_ok |-> FALSE, learned_data |-> EmptyLearned],
     [exists |-> TRUE, json_ok |-> FALSE, learned_data |-> EmptyLearned],
     OldStore}

InitialReports ==
    {ReportFile(FALSE, FALSE, 1, 0), ReportFile(TRUE, FALSE, 1, 0)}
        \cup {ReportFile(TRUE, TRUE, a, n) : a \in Firsts, n \in 0..MaxRecords}

\* BlunderDataManager.__init__ and LearnedBlunderTracker.__init__
TrainStart(o) ==
    /\ ScannerAbsent
    /\ store_file \in InitialStores
    /\ report_file \in InitialReports
    /\ tracker = LoadProgress(store_file)
    /\ \E threshold \in ManagerThresholds :
           mgr = [threshold |-> threshold, all_blunders_from_file |-> <<>>,
                  training_blunders |-> <<>>, current_index |-> -1,
                  show_only_unsolved |-> TRUE]
    /\ obs = o
    /\ ctl = NoAttempt

TrainInit == TrainStart(ObsOff)

TrainNext ==
    \/ load_blunders /\ UNCHANGED <<scanVars, ctl>>
    \/ \E b \in BOOLEAN : set_show_only_unsolved(b) /\ UNCHANGED <<scanVars, ctl>>
    \/ next_blunder /\ UNCHANGED <<scanVars, ctl>>
    \/ prev_blunder /\ UNCHANGED <<scanVars, ctl>>
    \/ \E u \in AttemptUcis, solved \in BOOLEAN :
           record_attempt_for_current_blunder(u, AttemptPWin(u), solved)
               /\ UNCHANGED <<scanVars, ctl>>
    \/ \E outcome \in {"ok", "open_fails", "dump_fails"} :
           save_progress(outcome) /\ UNCHANGED <<scanVars, ctl>>
    \/ \E fen \in Fens : reset_blunder_solved_status(fen) /\ UNCHANGED <<scanVars, ctl>>
    \/ ReportGrows /\ UNCHANGED <<scanVars, ctl>>

TrainSpec == TrainInit /\ [][TrainNext]_vars

\* the trainer as the GUI constructs it (with the default threshold), the calls of
\* set_show_only_unsolved followed by obs
ToggleInit ==
    /\ TrainStart(Obs0)
    /\ mgr.threshold = DEFAULT_GUI_BLUNDER_THRESHOLD

ToggleSpec == ToggleInit /\ [][TrainNext]_vars

(***************************************************************************)
(* Specifications of the scanner                                           *)
(***************************************************************************)
ManagerAbsent ==
    /\ mgr = <<>>
    /\ tracker = <<>>
    /\ store_file = <<>>
    /\ report_file = <<>>
    /\ obs = <<>>

TrainerAbsent ==
    /\ ManagerAbsent
    /\ ctl = NoAttempt

ScanInit ==
    /\ \E n \in 0..MaxGames, off \in Offsets, rx \in RaisePositions :
           archive = ArchiveOf(n, off, rx)
    /\ outFile \in InitialFiles
    /\ pc = "idle"
    /\ \E t \in Thresholds : scan = IdleScan(t)
    /\ returned = NoReturn
    /\ sessions = 0
    /\ TrainerAbsent

ScanNext ==
    \/ \E t \in Thresholds, engines_ok \in BOOLEAN :
           StartScan(t, engines_ok) /\ UNCHANGED trainVars
    \/ \E io \in {"ok", "notfound", "error"} : OpenArchive(io) /\ UNCHANGED trainVars
    \/ \E write_ok \in BOOLEAN : ReadGame(write_ok) /\ UNCHANGED trainVars
    \/ EndOfArchive /\ UNCHANGED trainVars
    \/ ReadError /\ UNCHANGED trainVars
    \/ MainWrite /\ UNCHANGED trainVars
    \/ ProcessKilled /\ UNCHANGED trainVars

ScanSpec == ScanInit /\ [][ScanNext]_vars


\* Scanning with one threshold and one output path, from no usable report: a
\* session ends by returning or by being stopped, and the next one starts from
\* what the checkpoints left in the file.
ResumeInit ==
    /\ ScanInit
    /\ ~Resumable(outFile)

ResumeNext ==
    \/ \E engines_ok \in BOOLEAN :
           StartScan(scan.blunder_threshold, engines_ok) /\ UNCHANGED trainVars
    \/ \E io \in {"ok", "notfound", "error"} : OpenArchive(io) /\ UNCHANGED trainVars
    \/ \E write_ok \in BOOLEAN : ReadGame(write_ok) /\ UNCHANGED trainVars
    \/ EndOfArchive /\ UNCHANGED trainVars
    \/ ReadError /\ UNCHANGED trainVars
    \/ ProcessKilled /\ UNCHANGED trainVars

ResumeSpec == ResumeInit /\ [][ResumeNext]_vars

(***************************************************************************)
(* Specification of the evaluation of attempts                             *)
(***************************************************************************)
\* load_and_display_current_blunder has put a record on the board
AttemptInit ==
    /\ ScannerAbsent
    /\ ManagerAbsent
    /\ \E l9 \in TopLists9M, l136 \in TopLists136M, engine_9M \in BOOLEAN,
          optimal \in LivePWinsOptimal :
           ctl = [current_interaction_mode |-> "user_input",
                  top_moves_9M_data |-> l9,
                  top_moves_136M_data |-> l136,
                  engine_9M |-> engine_9M,
                  live_pwin_optimal_from_engine |-> optimal,
                  user_move_uci |-> "",
                  live_pwin_after_user_attempt |-> None,
                  result |-> AttemptDefaults]

AttemptNext ==
    \/ \E uci \in UserMoves, after \in LivePWinsAfter :
           evaluate_and_display_user_attempt(uci, after) /\ UNCHANGED scanVars
    \/ action_retry_current_blunder /\ UNCHANGED scanVars

AttemptSpec == AttemptInit /\ [][AttemptNext]_vars

(***************************************************************************)
(* Claims about the scanner                                                *)
(***************************************************************************)
\* the list one uninterrupted scan of the archive from game 0 builds
RECURSIVE OnePassFrom(_, _, _, _)
OnePassFrom(arch, i, blunder_threshold, acc) ==
    IF i > Len(arch) THEN acc
    ELSE LET game == GameOf(arch[i])
             color == TrackedColor(game, DEFAULT_PLAYER_NAME_TO_TRACK)
             r == EvalGame(game, color, i - 1, blunder_threshold, acc)
         IN  IF color = "none" THEN OnePassFrom(arch, i + 1, blunder_threshold, acc)
             ELSE IF r.raised THEN r.blunders
             ELSE OnePassFrom(arch, i + 1, blunder_threshold, r.blunders)

OnePass(arch, blunder_threshold) == OnePassFrom(arch, 1, blunder_threshold, <<>>)

DropsAtLeast(blunders, t) ==
    \A i \in 1..Len(blunders) :
        blunders[i].p_win_drop_9M >= t /\ blunders[i].p_win_drop_136M >= t

\* C1: a scan that completes after earlier sessions were stopped and resumed from
\* their checkpoints returns the blunder list (records, order, game indices) that
\* one uninterrupted scan of the archive with the same threshold builds.
C1_ResumeIdempotence ==
    (pc = "returned" /\ returned.how = "complete")
        => returned.report.blunders = OnePass(archive, scan.blunder_threshold)

\* a completed scan that resumed behind a checkpoint and holds records of games
\* of both sessions
C1_Witness ==
    /\ pc = "returned" /\ returned.how = "complete"
    /\ scan.resumed /\ ~scan.skip_hit_eof
    /\ scan.start_game_index_from_resume = SAVE_PROGRESS_EVERY_N_GAMES
    /\ \E i, j \in 1..Len(returned.report.blunders) :
           /\ returned.report.blunders[i].game_index_in_pgn_file
                  < SAVE_PROGRESS_EVERY_N_GAMES
           /\ returned.report.blunders[j].game_index_in_pgn_file
                  >= SAVE_PROGRESS_EVERY_N_GAMES

\* C2: every record of a report written at a checkpoint or returned by a scan
\* with threshold T has p_win_drop_9M >= T and p_win_drop_136M >= T.
C2_TierMonotonicity ==
    /\ (pc = "returned" /\ returned.is_report)
           => DropsAtLeast(returned.report.blunders, scan.blunder_threshold)
    /\ (pc = "loop" /\ outFile = DumpReport(scan.final_report_data))
           => DropsAtLeast(outFile.blunders, scan.blunder_threshold)

\* C7: a session that resumes from a report with index L, in an archive the skip
\* does not exhaust, has skipped exactly L+1 games, starts from the stored list,
\* and the first game it evaluates is the game at position L+1, labelled L+1.
C7_ResumeSkip ==
    (pc = "loop" /\ scan.resumed /\ ~scan.skip_hit_eof /\ Len(scan.games_read) <= 1)
        => /\ scan.pgn_pos = outFile.last + 1 + Len(scan.games_read)
           /\ Len(scan.games_read) = 1 =>
                  scan.games_read[1] = [pos |-> outFile.last + 1, index |-> outFile.last + 1]
           /\ Len(scan.games_read) = 0 => scan.blunders_found_list = outFile.blunders

\* the first game read after resuming behind the checkpoint of game 9
C7_Witness ==
    /\ pc = "loop" /\ scan.resumed /\ ~scan.skip_hit_eof
    /\ Len(scan.games_read) = 1
    /\ outFile.last = SAVE_PROGRESS_EVERY_N_GAMES - 1
    /\ Len(outFile.blunders) > 0

\* C8: within a session the last_game_index_processed of the in-memory report
\* (which is what checkpoints write and what is returned) never decreases,
\* starting from the loaded value.  The reset that the end-of-archive fallback
\* makes by design is not counted here.
C8_ProgressMonotone ==
    [][(pc \in {"open", "loop"} /\ pc' \in {"loop", "returned"}
        /\ returned'.how \in {"running", "complete", "error"}
        /\ ~scan'.skip_hit_eof)
          => scan'.final_report_data.last_game_index_processed
                 >= scan.final_report_data.last_game_index_processed]_vars

\* C9: when the archive ends during the resume-skip, the loaded list and progress
\* are discarded, reading restarts at the first game, every game is read with its
\* position as index, and a completed session returns the list of a fresh scan.
C9_EofFallback ==
    scan.skip_hit_eof
        => /\ (pc = "loop" /\ scan.games_read = <<>>)
                  => /\ scan.blunders_found_list = <<>>
                     /\ scan.final_report_data = Report(-1, <<>>)
                     /\ scan.pgn_pos = 0
                     /\ scan.current_game_index = -1
           /\ \A k \in 1..Len(scan.games_read) :
                  scan.games_read[k] = [pos |-> k - 1, index |-> k - 1]
           /\ (pc = "returned" /\ returned.how = "complete")
                  => /\ Len(scan.games_read) = Len(archive)
                     /\ returned.report.blunders = OnePass(archive, scan.blunder_threshold)

\* a completed session that fell back and found blunders
C9_Witness ==
    /\ scan.skip_hit_eof
    /\ pc = "returned" /\ returned.how = "complete"
    /\ Len(returned.report.blunders) > 1

\* a report file that exists and cannot be resumed from
Unusable(f) == f.exists /\ ~Resumable(f)

\* C10: with an unusable report file scan_pgn_file does not raise, starts at game
\* 0 with an empty list, and leaves the file as it is.
C10_FreshOnMismatch ==
    /\ (pc = "raised" => ~Unusable(outFile))
    /\ (pc = "open" /\ Unusable(outFile))
           => /\ scan.start_game_index_from_resume = 0
              /\ scan.blunders_found_list = <<>>

\* C11: each time the number of games read in the session reaches a multiple of
\* SAVE_PROGRESS_EVERY_N_GAMES, the report is written to the output path with the
\* index of the game just read and the list so far, whether or not the tracked
\* player is in the game (the write itself succeeding).
C11_CheckpointCadence ==
    [][(ReadGame(TRUE) /\ pc' = "loop"
        /\ scan'.games_processed_in_this_session % SAVE_PROGRESS_EVERY_N_GAMES = 0)
          => outFile' = File("report", PgnPath, scan'.current_game_index,
                             scan'.blunders_found_list)]_vars

\* C12: a game whose processing raises does not end the scan: after the step that
\* reads and processes a game the session is still in its main loop.
C12_ErrorContained ==
    [][(\E write_ok \in BOOLEAN : ReadGame(write_ok)) => pc' = "loop"]_vars

\* C13: a scan that ends because the archive cannot be opened or read returns the
\* report with every blunder accumulated so far, never None.
C13_PartialResult ==
    (pc = "returned" /\ returned.how \in {"notfound", "error"})
        => /\ returned.is_report
           /\ returned.report.blunders = scan.blunders_found_list

(***************************************************************************)
(* Claims about the trainer                                                *)
(***************************************************************************)
\* the recorded move is the first entry of top_moves_9M_before_blunder and the
\* drop is below 0.01
FakeBlunder(b) ==
    /\ b.is_dict /\ required_keys \subseteq b.keys
    /\ b.top_is_list /\ b.drop_is_number
    /\ Len(b.top_moves_9M_before_blunder) > 0
    /\ b.top_moves_9M_before_blunder[1].uci = b.blunder_move_uci
    /\ b.p_win_drop_9M < NEGLIGIBLE_PWIN_DROP_FOR_FAKE_BLUNDER_CHECK

\* C3: whatever the threshold, show_only_unsolved and the tracker hold, a record
\* whose blunder move is the first tier-1 top move and whose drop is below 0.01 is
\* never a member of training_blunders.
C3_FakeBlunderExclusion ==
    \A k \in 1..Len(mgr.training_blunders) : ~FakeBlunder(mgr.training_blunders[k])

\* a pass with a threshold the fake record's drop reaches has kept other records
\* of a list that holds the fake one
C3_Witness ==
    /\ Len(mgr.training_blunders) > 0
    /\ \E k \in 1..Len(mgr.all_blunders_from_file) :
           /\ FakeBlunder(mgr.all_blunders_from_file[k])
           /\ mgr.all_blunders_from_file[k].p_win_drop_9M >= mgr.threshold

\* a step of record_attempt_for_current_blunder or of save_learning_progress
RecordOrSave ==
    \/ \E u \in AttemptUcis, solved \in BOOLEAN :
           record_attempt_for_current_blunder(u, AttemptPWin(u), solved)
    \/ \E outcome \in {"ok", "open_fails", "dump_fails"} : save_progress(outcome)

\* C4: a position is_blunder_solved answers true for is still answered true
\* after any record_attempt (for it or another position, solving or not) and
\* after any save_progress.
C4_SolvedMonotone ==
    [][RecordOrSave =>
          \A f \in Fens :
              is_blunder_solved(tracker.learned_data, f)
                  => is_blunder_solved(tracker'.learned_data, f)]_vars

\* a solved position with a later attempt that did not meet the criteria, saved
C4_Witness ==
    \E f \in Fens :
        LET a == tracker.learned_data[f].attempts
        IN  /\ is_blunder_solved(tracker.learned_data, f)
            /\ Len(a) >= 2
            /\ a[1].solved_criteria_met /\ ~a[Len(a)].solved_criteria_met
            /\ tracker.attempts_recorded > 0
            /\ ~tracker.has_unsaved_changes
            /\ store_file.learned_data = tracker.learned_data

\* C5 as stated: after set_show_only_unsolved(False) and then
\* set_show_only_unsolved(True), made from show_only_unsolved = True with no
\* record_attempt or reset between them, training_blunders is the list it was
\* before the first call.
C5_ToggleRestores ==
    obs.stage = 2 => mgr.training_blunders = obs.before

\* C5, amended: the two calls restore training_blunders when the list was, before
\* the first call, what a filter pass over the loaded records and the tracker's
\* data yields (no attempt or reset since the last pass), and load_blunders was
\* not called between the two.
C5_ToggleRestoresFresh ==
    (obs.stage = 2 /\ obs.undisturbed) => mgr.training_blunders = obs.before

\* both calls made, on a list that the first call had widened
C5_Witness ==
    /\ obs.stage = 2 /\ obs.undisturbed
    /\ Len(obs.before) > 0
    /\ filter_and_sort_training_blunders(mgr.all_blunders_from_file, mgr.threshold, FALSE,
                                         tracker.learned_data).training_blunders
           # mgr.training_blunders

\* training_blunders is what a filter pass yields now
Fresh(m, learned_data) ==
    LET pass == filter_and_sort_training_blunders(m.all_blunders_from_file, m.threshold,
                                                  m.show_only_unsolved, learned_data)
    IN  ~pass.raised /\ m.training_blunders = pass.training_blunders

\* the log of the position holds an attempt recorded as meeting the criteria
HasSolvedAttempt(learned_data, fen) ==
    \E k \in 1..Len(learned_data[fen].attempts) :
        learned_data[fen].attempts[k].solved_criteria_met

\* a step that runs a filter pass with show_only_unsolved = True
PassWithOnlyUnsolved ==
    \/ mgr.show_only_unsolved /\ report_file.exists /\ report_file.json_ok
           /\ load_blunders
    \/ ~mgr.show_only_unsolved /\ set_show_only_unsolved(TRUE)

\* the pass of the step ran to its end
PassCompleted ==
    ~filter_and_sort_training_blunders(mgr'.all_blunders_from_file, mgr'.threshold, TRUE,
                                       tracker.learned_data).raised

C14_AppendOnly ==
    [][tracker'.attempts_recorded # tracker.attempts_recorded
          => LET fen == AttemptKey(get_current_blunder(mgr).v)
                 before == tracker.learned_data[fen].attempts
                 after == tracker'.learned_data[fen].attempts
             IN  /\ tracker'.learned_data[fen].present
                 /\ Len(after) = Len(before) + 1
                 /\ SubSeq(after, 1, Len(before)) = before
                 /\ \E u \in AttemptUcis, solved \in BOOLEAN :
                        after[Len(after)] = [uci |-> u, pwin_after_9M |-> AttemptPWin(u),
                                             solved_criteria_met |-> solved]
                 /\ \A g \in Fens \ {fen} :
                        tracker'.learned_data[g] = tracker.learned_data[g]]_vars

\* an attempt of this session was appended behind an attempt of an earlier one
C14_Witness ==
    /\ tracker.attempts_recorded > 0
    /\ \E fen \in Fens : Len(tracker.learned_data[fen].attempts) >= 2

\* what a process started after a crash reads back from the store file
Reloaded(f) == LoadProgress(f).learned_data

\* C15: write-behind persistence: whenever has_unsaved_changes is false the store
\* file reads back as the in-memory learned_data, and what a reload after a crash
\* recovers changes only at a successful save, to the state saved by it (so it is
\* always the state as of the last successful save), whether saves succeed or fail.
C15_WriteBehind ==
    /\ [](~tracker.has_unsaved_changes => Reloaded(store_file) = tracker.learned_data)
    /\ [][Reloaded(store_file') # Reloaded(store_file)
             => /\ ~tracker'.has_unsaved_changes
                /\ Reloaded(store_file') = tracker'.learned_data]_vars

\* the index after k calls of next_blunder in a set of n records
RECURSIVE NextTimes(_, _, _)
NextTimes(k, current_index, n) ==
    IF k = 0 THEN current_index ELSE NextTimes(k - 1, NextIndex(current_index, n), n)

\* the cursor is on a record of a non-empty training set
CursorOnRecord ==
    /\ Len(mgr.training_blunders) > 0
    /\ 0 <= mgr.current_index /\ mgr.current_index < Len(mgr.training_blunders)

C18_CursorReset ==
    [][(\/ mgr'.show_only_unsolved # mgr.show_only_unsolved
        \/ mgr'.training_blunders # mgr.training_blunders)
          => /\ mgr'.current_index = -1
             /\ ~get_current_blunder(mgr').some]_vars

\* C19: when the filter has yielded no records, no call of next_blunder or
\* prev_blunder ends with the cursor anywhere but before-first,
\* get_current_blunder returns None, get_current_index_display returns 0, and no
\* call of record_attempt_for_current_blunder changes the tracker.
C19_EmptySet ==
    Len(mgr.training_blunders) = 0
        => /\ ~ENABLED (next_blunder /\ mgr'.current_index # -1)
           /\ ~ENABLED (prev_blunder /\ mgr'.current_index # -1)
           /\ ~get_current_blunder(mgr).some
           /\ get_current_index_display(mgr) = 0
           /\ ~ENABLED (\E u \in AttemptUcis, solved \in BOOLEAN :
                            /\ record_attempt_for_current_blunder(u, AttemptPWin(u), solved)
                            /\ tracker' # tracker)

\* a loaded report with records of which the filter has kept none
C19_Witness ==
    /\ Len(mgr.all_blunders_from_file) > 0
    /\ Len(mgr.training_blunders) = 0
    /\ tracker.attempts_recorded < MaxAttempts

\* the first of the six exclusion rules a record matches, in their order, or
\* "keep" when it matches none
FirstRule(b, threshold, show_only_unsolved, learned_data) ==
    CASE ~b.is_dict \/ ~(required_keys \subseteq b.keys) -> "malformed"
      [] OTHER ->
            LET is_top == IsBlunderMoveEnginesTop(b)
                drop == b.p_win_drop_9M
            IN  CASE is_top /\ drop < NEGLIGIBLE_PWIN_DROP_FOR_FAKE_BLUNDER_CHECK ->
                        "fake_blunder_uci_is_engine_top_and_negligible_drop"
                  [] is_top /\ drop >= NEGLIGIBLE_PWIN_DROP_FOR_FAKE_BLUNDER_CHECK ->
                        "fake_blunder_uci_is_engine_top_but_drop_is_significant_warning"
                  [] ~is_top /\ drop < threshold -> "below_threshold"
                  [] OTHER ->
                        IF show_only_unsolved
                           /\ is_blunder_solved(learned_data, b.fen_before_blunder)
                        THEN "solved_by_pwin_improvement"
                        ELSE IF show_only_unsolved /\ UserFoundEngineTop(learned_data, b)
                        THEN "solved_by_finding_engine_top_move"
                        ELSE "keep"

\* C20: in every filter pass over the loaded records each record is kept or is
\* counted under the skip counter of the first rule it matches, so every counter
\* is the number of records of its rule, the training set has the records of no
\* rule, and the counters and the training set add up to the loaded records.
C20_ExclusionTally ==
    \A show_only_unsolved \in BOOLEAN :
        LET all == mgr.all_blunders_from_file
            pass == filter_and_sort_training_blunders(all, mgr.threshold, show_only_unsolved,
                                                      tracker.learned_data)
            Matching(rule) ==
                {i \in 1..Len(all) :
                    FirstRule(all[i], mgr.threshold, show_only_unsolved,
                              tracker.learned_data) = rule}
            sk == pass.skipped_count
        IN  /\ \A c \in SkipCounters : sk[c] = Cardinality(Matching(c))
            /\ Len(pass.training_blunders) = Cardinality(Matching("keep"))
            /\ sk["malformed"] + sk["fake_blunder_uci_is_engine_top_and_negligible_drop"]
                 + sk["fake_blunder_uci_is_engine_top_but_drop_is_significant_warning"]
                 + sk["below_threshold"] + sk["solved_by_pwin_improvement"]
                 + sk["solved_by_finding_engine_top_move"] + Len(pass.training_blunders)
                   = Len(all)

\* the tally over the passes that run to their end
C20_TallyOfCompletedPasses ==
    \A show_only_unsolved \in BOOLEAN :
        LET all == mgr.all_blunders_from_file
            pass == filter_and_sort_training_blunders(all, mgr.threshold, show_only_unsolved,
                                                      tracker.learned_data)
        IN  pass.raised
              \/ /\ \A c \in SkipCounters :
                       pass.skipped_count[c] =
                           Cardinality({i \in 1..Len(all) :
                               FirstRule(all[i], mgr.threshold, show_only_unsolved,
                                         tracker.learned_data) = c})
                 /\ Len(pass.training_blunders) =
                           Cardinality({i \in 1..Len(all) :
                               FirstRule(all[i], mgr.threshold, show_only_unsolved,
                                         tracker.learned_data) = "keep"})

\* the attempted move is an entry of a record's top-move list
InTopList(uci, move_list) == \E k \in 1..Len(move_list) : move_list[k].uci = uci

\* the list has the move with a p_win within SOLVED_IMPROVEMENT_THRESHOLD of the
\* list's own optimum
SolvedInTier(uci, move_list) ==
    \E k \in 1..Len(move_list) :
        /\ move_list[k].uci = uci
        /\ move_list[k].p_win >= move_list[1].p_win - SOLVED_IMPROVEMENT_THRESHOLD

\* C16: when the attempted move is in the record's 9M or 136M top-move list, the
\* attempt is marked solved only if in some tier that has the move its recorded
\* p_win is at least that tier's optimum minus 0.03; the live comparison is used
\* only when the move is in neither list.
C16_SolvedCriterion ==
    ctl # NoAttempt /\ ctl.current_interaction_mode = "showing_feedback"
        => LET in_9m == InTopList(ctl.user_move_uci, ctl.top_moves_9M_data)
               in_136m == InTopList(ctl.user_move_uci, ctl.top_moves_136M_data)
           IN  /\ (in_9m \/ in_136m) /\ ctl.result.is_solved_overall
                     => \/ SolvedInTier(ctl.user_move_uci, ctl.top_moves_9M_data)
                        \/ SolvedInTier(ctl.user_move_uci, ctl.top_moves_136M_data)
               /\ ctl.result.evaluation_source = "Live Engine 9M"
                     => ~(in_9m \/ in_136m)

\* the part of C16 about the tiers alone: a solved attempt at a move found in
\* the first three entries of a list is solved in one of the tiers
C16_PerTier ==
    ctl # NoAttempt /\ ctl.current_interaction_mode = "showing_feedback"
        /\ ctl.result.evaluation_source # "Live Engine 9M"
        /\ ctl.result.is_solved_overall
        => \/ SolvedInTier(ctl.user_move_uci, ctl.top_moves_9M_data)
           \/ SolvedInTier(ctl.user_move_uci, ctl.top_moves_136M_data)

\* a persisted entry that is not an object, lacks a required key, or has a
\* required field of an unexpected shape
UnexpectedShape(b) ==
    \/ ~b.is_dict
    \/ ~(required_keys \subseteq b.keys)
    \/ ~b.drop_is_number
    \/ ~b.top_is_list
    \/ \E k \in 1..Len(b.top_moves_9M_before_blunder) :
           ~b.top_moves_9M_before_blunder[k].is_dict

\* C21: for the loaded records, whatever their shape, the filter pass runs to its
\* end without raising, keeps no record of an unexpected shape and counts every
\* such record as malformed.
C21_MalformedNeverThrow ==
    \A show_only_unsolved \in BOOLEAN :
        LET all == mgr.all_blunders_from_file
            pass == filter_and_sort_training_blunders(all, mgr.threshold, show_only_unsolved,
                                                      tracker.learned_data)
        IN  /\ ~pass.raised
            /\ \A k \in 1..Len(pass.training_blunders) :
                   ~UnexpectedShape(pass.training_blunders[k])
            /\ pass.skipped_count["malformed"]
                   = Cardinality({i \in 1..Len(all) : UnexpectedShape(all[i])})

\* the part of C21 the check of required keys covers: entries that are not
\* objects or lack a required key are counted as malformed and never kept
C21_MissingKeysAreMalformed ==
    \A show_only_unsolved \in BOOLEAN :
        LET all == mgr.all_blunders_from_file
            pass == filter_and_sort_training_blunders(all, mgr.threshold, show_only_unsolved,
                                                      tracker.learned_data)
        IN  \A k \in 1..Len(pass.training_blunders) :
                /\ pass.training_blunders[k].is_dict
                /\ required_keys \subseteq pass.training_blunders[k].keys

\* no record of the list is at a position marked solved or at a position where
\* an attempt used the record's tier-1 top move
NoSolvedRecord(blunders, learned_data) ==
    \A k \in 1..Len(blunders) :
        /\ ~is_blunder_solved(learned_data, blunders[k].fen_before_blunder)
        /\ ~UserFoundEngineTop(learned_data, blunders[k])

\* tracker states to compare a pass with
SomeLearned == {EmptyLearned, OldStore.learned_data, tracker.learned_data}

\* C22: after a filter pass with show_only_unsolved = True the training set has
\* no record at a solved position and none whose tier-1 top move was attempted;
\* a pass with show_only_unsolved = False yields the same whatever the tracker
\* state.
C22_SolvedFilter ==
    /\ [](\A learned_data \in SomeLearned :
              filter_and_sort_training_blunders(mgr.all_blunders_from_file, mgr.threshold,
                                                FALSE, learned_data)
                  = filter_and_sort_training_blunders(mgr.all_blunders_from_file,
                                                      mgr.threshold, FALSE, EmptyLearned))
    /\ [][PassWithOnlyUnsolved
            => NoSolvedRecord(mgr'.training_blunders, tracker.learned_data)]_vars

\* the same for the passes that run to their end
C22_SolvedFilterOfCompletedPasses ==
    LET all == mgr.all_blunders_from_file
        unsolved == filter_and_sort_training_blunders(all, mgr.threshold, TRUE,
                                                      tracker.learned_data)
    IN  /\ ~unsolved.raised
            => NoSolvedRecord(unsolved.training_blunders, tracker.learned_data)
        /\ \A learned_data \in SomeLearned :
               filter_and_sort_training_blunders(all, mgr.threshold, FALSE, learned_data)
                   = filter_and_sort_training_blunders(all, mgr.threshold, FALSE,
                                                       EmptyLearned)

\* a record whose blunder move is tier 1's top move, with a drop of 0.01 or more
AnomalyRecord(b) ==
    /\ b.is_dict /\ required_keys \subseteq b.keys
    /\ b.top_is_list /\ b.drop_is_number
    /\ Len(b.top_moves_9M_before_blunder) > 0
    /\ b.top_moves_9M_before_blunder[1].is_dict
    /\ b.top_moves_9M_before_blunder[1].uci = b.blunder_move_uci
    /\ b.p_win_drop_9M >= NEGLIGIBLE_PWIN_DROP_FOR_FAKE_BLUNDER_CHECK

\* C23: a record whose blunder move is tier 1's top move and whose drop is 0.01
\* or more is in no training set, whatever the threshold and the filter mode,
\* and is counted under the anomaly counter: the loop body gives it that
\* verdict, and the training set of the manager never holds it.
C23_AnomalyExclusion ==
    /\ \A k \in 1..Len(mgr.training_blunders) : ~AnomalyRecord(mgr.training_blunders[k])
    /\ \A i \in 1..Len(mgr.all_blunders_from_file), threshold \in ManagerThresholds,
          show_only_unsolved \in BOOLEAN :
           AnomalyRecord(mgr.all_blunders_from_file[i])
               => Verdict(mgr.all_blunders_from_file[i], threshold, show_only_unsolved,
                          tracker.learned_data)
                      = "fake_blunder_uci_is_engine_top_but_drop_is_significant_warning"

\* a report with an anomaly record has been loaded by a pass that ran to its end
C23_Witness ==
    /\ \E i \in 1..Len(mgr.all_blunders_from_file) :
           AnomalyRecord(mgr.all_blunders_from_file[i])
    /\ Fresh(mgr, tracker.learned_data)
    /\ Len(mgr.training_blunders) > 0

\* the games the main loop of this session has read so far
GamesReadSoFar == {archive[scan.games_read[k].pos + 1] : k \in 1..Len(scan.games_read)}

\* the cheap tier has both values for the move and they give a drop of at least
\* the threshold
CheapTierEscalates(node, color, blunder_threshold) ==
    /\ PWinOptimal(node, "9M").some
    /\ get_pwin_after_move(node, "9M", color).some
    /\ PWinOptimal(node, "9M").v - get_pwin_after_move(node, "9M", color).v
           >= blunder_threshold

C25_AttemptKeepsWorkingSet ==
    [][tracker'.attempts_recorded # tracker.attempts_recorded
          => /\ mgr'.training_blunders = mgr.training_blunders
             /\ mgr'.all_blunders_from_file = mgr.all_blunders_from_file
             /\ mgr'.current_index = mgr.current_index
             /\ get_current_blunder(mgr').some
             /\ get_current_blunder(mgr') = get_current_blunder(mgr)]_vars

\* the current record of the training set is at a position solved by an attempt
\* of this session, with only unsolved positions asked for
C25_Witness ==
    /\ tracker.attempts_recorded > 0
    /\ mgr.show_only_unsolved
    /\ get_current_blunder(mgr).some
    /\ is_blunder_solved(tracker.learned_data,
                         get_current_blunder(mgr).v.fen_before_blunder)
    /\ HasSolvedAttempt(tracker.learned_data,
                        get_current_blunder(mgr).v.fen_before_blunder)

\* C26: a scan of an archive of N >= 1 games that ends normally returns
\* last_game_index_processed = N-1, so that the next scan of the same archive,
\* resuming from the report main writes, skips no more games than the archive
\* has (no end-of-archive fallback) and evaluates no game.
C26_CompletedScanProgress ==
    (pc = "returned" /\ returned.how = "complete" /\ Len(archive) >= 1)
        => /\ returned.report.last_game_index_processed = Len(archive) - 1
           /\ SkippedGames(ResumeIndex(DumpReport(returned.report))) <= Len(archive)


(***************************************************************************)
(* C27                                                                     *)
(***************************************************************************)
\* the game called name, read with index current_game_index, has had every
\* move of the tracked player evaluated: the loop over its moves reached the
\* end of the game without raising
AllMovesEvaluated(name, current_game_index, blunder_threshold) ==
    LET game == GameOf(name)
        color == TrackedColor(game, DEFAULT_PLAYER_NAME_TO_TRACK)
    IN  \/ color = "none"
        \/ ~EvalGame(game, color, current_game_index, blunder_threshold, <<>>).raised

\* a report is consistent with the games the session has read
ConsistentReport(report, games_read, blunder_threshold) ==
    /\ \A k \in 1..Len(report.blunders) :
           report.blunders[k].game_index_in_pgn_file <= report.last_game_index_processed
    /\ \A k \in 1..Len(games_read) :
           games_read[k].index <= report.last_game_index_processed
               => AllMovesEvaluated(archive[games_read[k].pos + 1], games_read[k].index,
                                    blunder_threshold)

\* C27: every report written at a checkpoint or returned by scan_pgn_file (after
\* normal completion or after an aborting error) is consistent: each of its
\* blunder records has game_index <= last_game_index_processed, and each game
\* with index <= last_game_index_processed has had all of the tracked player's
\* moves evaluated
C27_ReportConsistency ==
    [][/\ (pc # "returned" /\ pc' = "returned" /\ returned'.is_report)
              => ConsistentReport(returned'.report, scan'.games_read, scan'.blunder_threshold)
       /\ (pc = "loop" /\ pc' = "loop" /\ outFile' # outFile)
              => ConsistentReport(scan'.final_report_data, scan'.games_read,
                                  scan'.blunder_threshold)]_vars

\* the checkpoint half alone: a report written at a checkpoint is consistent
C27_CheckpointConsistency ==
    [][(pc = "loop" /\ pc' = "loop" /\ outFile' # outFile)
              => ConsistentReport(scan'.final_report_data, scan'.games_read,
                                  scan'.blunder_threshold)]_vars


(***************************************************************************)
(* C28                                                                     *)
(***************************************************************************)
\* C28: after any sequence of load_blunders, set_show_only_unsolved,
\* next_blunder, prev_blunder and record_attempt_for_current_blunder calls, with
\* the report file and the tracker changing between the loads, current_index is
\* -1 or a valid index into training_blunders.
C28_CursorRange ==
    \/ mgr.current_index = -1
    \/ /\ 0 <= mgr.current_index
       /\ mgr.current_index < Len(mgr.training_blunders)


(***************************************************************************)
(* C29                                                                     *)
(***************************************************************************)
\* C29: with a non-empty training set of n records and the cursor before the
\* first record (current_index = -1), next_blunder makes the first record
\* (index 0) current and prev_blunder makes the last record (index n-1) current.
C29_ReentryFromBeforeFirst ==
    [][(mgr.current_index = -1 /\ Len(mgr.training_blunders) > 0)
          => /\ next_blunder => mgr'.current_index = 0
             /\ prev_blunder => mgr'.current_index = Len(mgr.training_blunders) - 1]_vars

\* the half that holds: next_blunder makes the first record current
C29_NextFromBeforeFirst ==
    [][(mgr.current_index = -1 /\ Len(mgr.training_blunders) > 0 /\ next_blunder)
          => mgr'.current_index = 0]_vars


(***************************************************************************)
(* C30                                                                     *)
(***************************************************************************)
\* the position was solved by an attempt and is not solved now: its overall
\* flag has been cleared by reset_blunder_solved_status and no later attempt
\* has set it again
ResetPosition(learned_data, fen) ==
    /\ learned_data[fen].present
    /\ HasSolvedAttempt(learned_data, fen)
    /\ ~is_blunder_solved(learned_data, fen)

\* the record passes the malformed, fake-blunder and threshold rules
PassesRecordRules(b, threshold) == Verdict(b, threshold, FALSE, EmptyLearned) = "keep"

InTraining(training_blunders, b) ==
    \E j \in 1..Len(training_blunders) : training_blunders[j] = b

\* a reset of a solved position clears its flag and keeps its attempts
ResetClearsFlagOnly ==
    \A f \in Fens :
        (is_blunder_solved(tracker.learned_data, f) /\ reset_blunder_solved_status(f))
            => /\ ~is_blunder_solved(tracker'.learned_data, f)
               /\ tracker'.learned_data[f].attempts = tracker.learned_data[f].attempts

====
